---- MODULE Spec2Model ----
(***************************************************************************)
(* InventoryStore of custom_components/ha_inventory/inventory.py and the   *)
(* update_item service handler of __init__.py.                             *)
(*                                                                         *)
(* A Python dict is an insertion-ordered sequence of [key, val] entries.   *)
(* An Item is a record over ItemFields; of the 24 dataclass fields the     *)
(* model keeps id, name, attachments, updated_at, the two fields that have *)
(* their own setter (area_id, zone_entity_id) and quantity, which stands   *)
(* for every other field (set verbatim by the constructor and by setattr). *)
(* Keyword bundles (data, changes) are sequences of <<key, value>>         *)
(* pairs with distinct keys.  File names are sequences of tokens.          *)
(***************************************************************************)
EXTENDS Integers, Sequences, FiniteSets, TLC

VARIABLES
    items,       \* self.items: Dict[str, Item]
    categories,  \* self.categories: Dict[str, Category]
    doc,         \* the document held by self._store
    files,       \* the files of the photo directory: {[name, content]}
    writes,      \* number of self._store.async_save calls that have landed
    now,         \* the clock read by _now_iso
    uuids,       \* number of uuid.uuid4() values drawn so far
    op,          \* the last call made: [name, id, keys]
    ret,         \* what the last call returned or raised: [kind, id]
    pc,          \* per task: where an in-flight call is suspended
    local        \* per task: the locals of the in-flight call

vars == <<items, categories, doc, files, writes, now, uuids, op, ret, pc, local>>

(***************************************************************************)
(* Bounds of the model.                                                    *)
(***************************************************************************)
MaxClock == 3      \* _now_iso is read at most this many times
MaxUuid == 3       \* uuid4 is drawn at most this many times

None == "None"
NoDoc == [items |-> <<>>, categories |-> <<>>, exists |-> FALSE]

ItemIds == {"a", "b"}
UuidNames == <<"u1", "u2", "u3", "u4", "u5", "u6">>
Areas == {"k"}
Zones == {"z"}
Contents == {"c1", "c2"}
FileNames == {<<"d", "/", "f", ".jpg">>}
MimeTypes == {"image/png"}
Tasks == {1, 2}

(***************************************************************************)
(* Python dict as an insertion-ordered sequence of entries.                *)
(***************************************************************************)
Keys(d) == {d[i].key : i \in DOMAIN d}

Has(d, k) == k \in Keys(d)

Get(d, k) == d[CHOOSE i \in DOMAIN d : d[i].key = k].val

Put(d, k, v) ==
    IF Has(d, k)
    THEN [i \in DOMAIN d |-> IF d[i].key = k THEN [key |-> k, val |-> v] ELSE d[i]]
    ELSE Append(d, [key |-> k, val |-> v])

IsNotKey(e, k) == e.key # k

Pop(d, k) == SelectSeq(d, LAMBDA e : IsNotKey(e, k))

(***************************************************************************)
(* Keyword bundles.                                                        *)
(***************************************************************************)
Range(s) == {s[i] : i \in DOMAIN s}

KwKeys(kw) == {kw[i][1] : i \in DOMAIN kw}

KwGet(kw, k) == kw[CHOOSE i \in DOMAIN kw : kw[i][1] = k][2]

IsNotKw(p, k) == p[1] # k

KwPop(kw, k) == SelectSeq(kw, LAMBDA p : IsNotKw(p, k))

(***************************************************************************)
(* Item, Attachment, Category.                                             *)
(***************************************************************************)
ItemFields == {"id", "name", "quantity", "area_id", "zone_entity_id",
               "attachments", "updated_at"}

\* the dataclass defaults of the fields that have one
ItemDefault(f, t) ==
    CASE f = "quantity" -> 1
      [] f = "area_id" -> None
      [] f = "zone_entity_id" -> None
      [] f = "attachments" -> <<>>
      [] f = "updated_at" -> t

\* the Item constructor at clock reading t; data holds id and name and only field keys
Item(data, t) ==
    [f \in ItemFields |-> IF f \in KwKeys(data) THEN KwGet(data, f)
                          ELSE ItemDefault(f, t)]

Attachment(id, name, content_type, t) ==
    [id |-> id, category |-> "photo", name |-> name,
     content_type |-> content_type,
     path |-> <<"/local/ha_inventory/">> \o name, uploaded_at |-> t]

Category(id, name) == [id |-> id, name |-> name, parent_id |-> None]

(***************************************************************************)
(* async_save and async_load.                                              *)
(***************************************************************************)
AttachmentFields == {"id", "category", "name", "content_type", "path", "uploaded_at"}

\* dataclasses.asdict: the fields of the dataclass, read off the instance
AttachmentAsDict(a) == [f \in AttachmentFields |-> a[f]]

ItemAsDict(item) ==
    [f \in ItemFields |->
        IF f = "attachments"
        THEN [i \in DOMAIN item.attachments |-> AttachmentAsDict(item.attachments[i])]
        ELSE item[f]]

\* the data async_save hands to the store: the values of both dicts, in order
Serialize(its, cats) ==
    [items |-> [i \in DOMAIN its |-> ItemAsDict(its[i].val)],
     categories |-> [i \in DOMAIN cats |-> cats[i].val],
     exists |-> TRUE]

\* "await self._store.async_load() or {}", then data.get(..., [])
StoredData(d) == [items |-> d.items, categories |-> d.categories]

ItemFromDict(raw) ==
    [f \in ItemFields |->
        IF f = "attachments"
        THEN [i \in DOMAIN raw.attachments |-> AttachmentAsDict(raw.attachments[i])]
        ELSE raw[f]]

RECURSIVE LoadInto(_, _)
\* "for raw in list: obj = Cls(raw); d[obj.id] = obj"
LoadInto(d, raws) ==
    IF raws = <<>> THEN d
    ELSE LoadInto(Put(d, Head(raws).id, Head(raws)), Tail(raws))

RECURSIVE MapItemFromDict(_)
MapItemFromDict(raws) ==
    IF raws = <<>> THEN <<>>
    ELSE <<ItemFromDict(Head(raws))>> \o MapItemFromDict(Tail(raws))

LoadItems(d) == LoadInto(<<>>, MapItemFromDict(StoredData(d).items))

LoadCategories(d) == LoadInto(<<>>, StoredData(d).categories)

(***************************************************************************)
(* The state after async_setup: the store constructed and loaded.          *)
(***************************************************************************)
InitAttachment == Attachment("x1", <<"d", "_", "f", ".jpg">>, "image/jpeg", 0)

InitItem == [id |-> "a", name |-> "n", quantity |-> 1, area_id |-> None,
             zone_entity_id |-> None, attachments |-> <<InitAttachment>>,
             updated_at |-> 0]

\* the documents the store may find at startup: none, or one saved earlier
InitDocs == {NoDoc,
             [items |-> <<ItemAsDict(InitItem)>>,
              categories |-> <<Category("c1", "tools")>>, exists |-> TRUE]}

NoCall == [name |-> "none", id |-> "", keys |-> {}]
NoResult == [kind |-> "none", id |-> ""]

\* the locals of a call not yet made
NoLocal == [name |-> "", id |-> "", item |-> <<>>, changes |-> <<>>, att |-> "",
            suggested |-> <<>>, data |-> NoDoc, ret |-> NoResult]

Init ==
    /\ doc \in InitDocs
    /\ items = LoadItems(doc)
    /\ categories = LoadCategories(doc)
    /\ files = UNION {{[name |-> a.name, content |-> "c1"] :
                            a \in Range(doc.items[i].attachments)} :
                      i \in DOMAIN doc.items}
    /\ writes = 0
    /\ now = 1
    /\ uuids = 0
    /\ op = NoCall
    /\ ret = NoResult
    /\ pc = [t \in Tasks |-> "idle"]
    /\ local = [t \in Tasks |-> NoLocal]

\* no call is in progress and the last result has been taken
Idle == op = NoCall /\ \A t \in Tasks : pc[t] = "idle"

\* "await self.async_save()" of a call that runs alone: the write lands
Save(its) ==
    /\ doc' = Serialize(its, categories)
    /\ writes' = writes + 1

Returns(kind, id) == ret' = [kind |-> kind, id |-> id]

Called(name, id, keys) == op' = [name |-> name, id |-> id, keys |-> keys]

(***************************************************************************)
(* async_add_item                                                          *)
(***************************************************************************)
\* "data.get('id') or ...": an absent or empty id is falsy
SuppliedId(data) ==
    IF "id" \in KwKeys(data) /\ KwGet(data, "id") # "" THEN KwGet(data, "id") ELSE ""

\* data["id"] = item_id
WithId(data, item_id) ==
    IF "id" \in KwKeys(data)
    THEN [i \in DOMAIN data |-> IF data[i][1] = "id" THEN <<"id", item_id>> ELSE data[i]]
    ELSE Append(data, <<"id", item_id>>)

\* AddItem with the name check made after the item is stored and saved
AddItemChecksLate(data) ==
    LET drawn == SuppliedId(data) = ""
        item_id == IF drawn THEN UuidNames[uuids + 1] ELSE SuppliedId(data)
        named == IF "name" \in KwKeys(data) THEN data ELSE Append(data, <<"name", "">>)
        data1 == KwPop(WithId(named, item_id), "attachments")
        item == Item(data1, now)
    IN  /\ Idle
        /\ now < MaxClock
        /\ drawn => uuids < MaxUuid
        /\ uuids' = IF drawn THEN uuids + 1 ELSE uuids
        /\ Called("add_item", item_id, KwKeys(data))
        /\ UNCHANGED <<categories, files, pc, local>>
        /\ IF ~(KwKeys(data1) \subseteq ItemFields)
           THEN /\ Returns("TypeError", "")
                /\ UNCHANGED <<items, doc, writes, now>>
           ELSE /\ items' = Put(items, item.id, item)
                /\ Save(items')
                /\ now' = now + 1
                /\ IF "name" \notin KwKeys(data)
                   THEN Returns("ValueError", "")
                   ELSE Returns("Item", item.id)

AddItem(data) ==
    LET drawn == SuppliedId(data) = ""
        item_id == IF drawn THEN UuidNames[uuids + 1] ELSE SuppliedId(data)
        data1 == KwPop(WithId(data, item_id), "attachments")
        item == Item(data1, now)
    IN  /\ Idle
        /\ now < MaxClock
        /\ drawn => uuids < MaxUuid
        /\ uuids' = IF drawn THEN uuids + 1 ELSE uuids
        /\ Called("add_item", item_id, KwKeys(data))
        /\ UNCHANGED <<categories, files, pc, local>>
        /\ IF "name" \notin KwKeys(data)
           THEN /\ Returns("ValueError", "")
                /\ UNCHANGED <<items, doc, writes, now>>
           ELSE IF ~(KwKeys(data1) \subseteq ItemFields)
           THEN /\ Returns("TypeError", "")
                /\ UNCHANGED <<items, doc, writes, now>>
           ELSE /\ items' = Put(items, item.id, item)
                /\ Save(items')
                /\ now' = now + 1
                /\ Returns("Item", item.id)

(***************************************************************************)
(* async_update_item                                                       *)
(***************************************************************************)
\* hasattr(item, key): the fields, and what every object has besides
HasAttr(item, key) == key \in ItemFields \cup {"__dict__", "__class__"}

\* setattr(item, key, value) raises: __class__ takes a class only, and no
\* value here is one
SetAttrRaises(item, key, value) == key = "__class__"

\* setattr(item, key, value): a field is overwritten; __dict__ replaces the
\* instance's whole attribute dictionary
SetAttr(item, key, value) ==
    IF key = "__dict__" THEN value ELSE [item EXCEPT ![key] = value]

RECURSIVE ApplyChanges(_, _)
\* the loop over changes.items(): [item, raised]
ApplyChanges(item, changes) ==
    IF changes = <<>> THEN [item |-> item, raised |-> FALSE]
    ELSE LET key == Head(changes)[1]
             value == Head(changes)[2]
         IN  IF ~HasAttr(item, key) THEN ApplyChanges(item, Tail(changes))
             ELSE IF key = "attachments" THEN ApplyChanges(item, Tail(changes))
             ELSE IF SetAttrRaises(item, key, value)
                  THEN [item |-> item, raised |-> TRUE]
             ELSE ApplyChanges(SetAttr(item, key, value), Tail(changes))

Update(name, item_id, changes) ==
    /\ Called(name, item_id, KwKeys(changes))
    /\ UNCHANGED <<categories, files, uuids, pc, local>>
    /\ IF ~Has(items, item_id)
       THEN Returns("None", "") /\ UNCHANGED <<items, doc, writes, now>>
       ELSE LET r == ApplyChanges(Get(items, item_id), changes)
                item == [r.item EXCEPT !.updated_at = now]
            IN  IF r.raised
                THEN /\ items' = Put(items, item_id, r.item)
                     /\ Returns("TypeError", "")
                     /\ UNCHANGED <<doc, writes, now>>
                ELSE /\ items' = Put(items, item_id, item)
                     /\ Save(items')
                     /\ now' = now + 1
                     /\ Returns("Item", item.id)

UpdateItem(item_id, changes) ==
    /\ Idle
    /\ now < MaxClock
    /\ Update("update_item", item_id, changes)

\* __init__.py handle_update_item: the id is taken out of the call data
HandleUpdateItem(data) ==
    /\ Idle
    /\ now < MaxClock
    /\ "id" \in KwKeys(data)
    /\ Update("handle_update_item", KwGet(data, "id"), KwPop(data, "id"))

(***************************************************************************)
(* async_delete_item, async_move_item_area, async_set_item_zone            *)
(***************************************************************************)
\* DeleteItem written as "pop(item_id, None)" followed by the save in any case
DeleteItemAlwaysSaves(item_id) ==
    /\ Idle
    /\ Called("delete_item", item_id, {})
    /\ UNCHANGED <<categories, files, uuids, now, pc, local>>
    /\ items' = Pop(items, item_id)
    /\ Save(items')
    /\ Returns(IF Has(items, item_id) THEN "True" ELSE "False", "")

DeleteItem(item_id) ==
    /\ Idle
    /\ Called("delete_item", item_id, {})
    /\ UNCHANGED <<categories, files, uuids, now, pc, local>>
    /\ IF ~Has(items, item_id)
       THEN Returns("False", "") /\ UNCHANGED <<items, doc, writes>>
       ELSE /\ items' = Pop(items, item_id)
            /\ Save(items')
            /\ Returns("True", "")

SetField(name, item_id, field, value) ==
    /\ Idle
    /\ now < MaxClock
    /\ Called(name, item_id, {})
    /\ UNCHANGED <<categories, files, uuids, pc, local>>
    /\ IF ~Has(items, item_id)
       THEN Returns("None", "") /\ UNCHANGED <<items, doc, writes, now>>
       ELSE LET item == [Get(items, item_id) EXCEPT ![field] = value,
                                                    !.updated_at = now]
            IN  /\ items' = Put(items, item_id, item)
                /\ Save(items')
                /\ now' = now + 1
                /\ Returns("Item", item.id)

MoveItemArea(item_id, area_id) ==
    SetField("move_item_area", item_id, "area_id", area_id)

SetItemZone(item_id, zone_entity_id) ==
    SetField("set_item_zone", item_id, "zone_entity_id", zone_entity_id)

(***************************************************************************)
(* Photo handling                                                          *)
(***************************************************************************)
NoName == <<>>          \* suggested_filename None (or empty): falsy
ExtTokens == {".jpg", ".png"}

\* mimetypes.guess_extension of the type before any ";": "" when unknown
GuessExtension(mime_type) ==
    CASE mime_type = "image/jpeg" -> ".jpg"
      [] mime_type = "image/png" -> ".png"
      [] OTHER -> ""

\* "." in suggested_filename
HasDot(name) == \E i \in DOMAIN name : name[i] \in ExtTokens

\* os.path.splitext(name)[1]
SplitExt(name) ==
    IF name # <<>> /\ name[Len(name)] \in ExtTokens THEN name[Len(name)] ELSE ""

Ext(suggested, mime_type) ==
    LET guessed == IF GuessExtension(mime_type) # "" THEN GuessExtension(mime_type)
                   ELSE ".jpg"
    IN  IF suggested # NoName /\ HasDot(suggested) /\ SplitExt(suggested) # ""
        THEN SplitExt(suggested) ELSE guessed

\* filename.replace("/", "_").replace("\\", "_")
Sanitize(name) ==
    [i \in DOMAIN name |-> IF name[i] \in {"/", "\\"} THEN "_" ELSE name[i]]

\* "with open(file_path, 'wb') as f: f.write(content)"
WriteFile(fs, name, content) ==
    {f \in fs : f.name # name} \cup {[name |-> name, content |-> content]}

\* the uuid4 draws of one photo add: the attachment id, and the generated name
PhotoDraws(suggested) == IF suggested = NoName THEN 2 ELSE 1

\* async_add_item_photo_from_bytes from its first line, as called by name
FromBytes(name, item_id, content, suggested, mime_type) ==
    /\ Called(name, item_id, {})
    /\ UNCHANGED <<categories, pc, local>>
    /\ IF ~Has(items, item_id)
       THEN Returns("None", "") /\ UNCHANGED <<items, doc, files, writes, now, uuids>>
       ELSE LET mime == IF mime_type = None THEN "image/jpeg" ELSE mime_type
                ext == Ext(suggested, mime)
                filename == Sanitize(IF suggested # NoName THEN suggested
                                     ELSE <<item_id, "-", UuidNames[uuids + 1], ext>>)
                attachment == Attachment(UuidNames[uuids + PhotoDraws(suggested)],
                                         filename, mime, now)
                old == Get(items, item_id)
                item == [old EXCEPT !.attachments = Append(old.attachments, attachment),
                                    !.updated_at = now]
            IN  /\ files' = WriteFile(files, filename, content)
                /\ uuids' = uuids + PhotoDraws(suggested)
                /\ items' = Put(items, item_id, item)
                /\ Save(items')
                /\ now' = now + 1
                /\ Returns("Item", item.id)

PhotoGuard(suggested) ==
    /\ Idle
    /\ now < MaxClock
    /\ uuids + PhotoDraws(suggested) <= MaxUuid

AddItemPhotoFromBytes(item_id, content, suggested, mime_type) ==
    /\ PhotoGuard(suggested)
    /\ FromBytes("add_item_photo_from_bytes", item_id, content, suggested, mime_type)

\* the responses session.get may give: [status, content, content_type]
Responses == [status : {200, 404}, content : Contents,
              content_type : MimeTypes \cup {None}]

AddItemPhotoFromUrl(item_id, resp, suggested) ==
    /\ PhotoGuard(suggested)
    /\ IF ~Has(items, item_id) \/ resp.status # 200
       THEN /\ Called("add_item_photo_from_url", item_id, {})
            /\ Returns("None", "")
            /\ UNCHANGED <<items, categories, doc, files, writes, now, uuids, pc, local>>
       ELSE FromBytes("add_item_photo_from_url", item_id, resp.content, suggested,
                      IF resp.content_type = None THEN "image/jpeg"
                      ELSE resp.content_type)

\* a file reference: an object with the attributes, or a dict with the keys;
\* readable says whether open(src_path) succeeds
FileInfos == [kind : {"object", "dict"}, path : {None, "p"},
              filename : FileNames \cup {NoName}, content_type : {None},
              readable : BOOLEAN, content : Contents]

\* getattr(file_info, "path", None), then file_info.get("path") for a dict
SrcPath(file_info) ==
    LET attr == IF file_info.kind = "object" THEN file_info.path ELSE None
    IN  IF attr = None /\ file_info.kind = "dict" THEN file_info.path ELSE attr

AddItemPhotoFromFileInfo(item_id, file_info) ==
    /\ PhotoGuard(file_info.filename)
    /\ IF \/ ~Has(items, item_id)
          \/ SrcPath(file_info) = None
          \/ ~file_info.readable
       THEN /\ Called("add_item_photo_from_file_info", item_id, {})
            /\ Returns("None", "")
            /\ UNCHANGED <<items, categories, doc, files, writes, now, uuids, pc, local>>
       ELSE FromBytes("add_item_photo_from_file_info", item_id, file_info.content,
                      file_info.filename, file_info.content_type)

(***************************************************************************)
(* The calls made on the store, one at a time.                             *)
(***************************************************************************)
CallIds == ItemIds \cup Keys(items)

AddKeys == {"id", "name", "attachments", "bogus"}

\* the field bundles add_item is called with
AddBundles ==
    {  (IF "id" \in P THEN <<<<"id", i>>>> ELSE <<>>)
    \o (IF "name" \in P THEN <<<<"name", "n">>>> ELSE <<>>)
    \o (IF "attachments" \in P THEN <<<<"attachments", <<InitAttachment>>>>>> ELSE <<>>)
    \o (IF "bogus" \in P THEN <<<<"bogus", 1>>>> ELSE <<>>)
       : P \in SUBSET AddKeys, i \in ItemIds \cup {""} }

\* a complete attribute dictionary, as a caller may pass for __dict__
DictValue == [id |-> "b", name |-> "m", quantity |-> 1, area_id |-> None,
              zone_entity_id |-> None, attachments |-> <<>>, updated_at |-> 0]

\* the change sets update_item is called with, in keyword order
ChangeSets ==
    { <<>>,
      <<<<"quantity", 2>>>>,
      <<<<"id", "b">>>>,
      <<<<"id", "a">>>>,
      <<<<"attachments", <<>>>>>>,
      <<<<"bogus", 1>>>>,
      <<<<"quantity", 2>>, <<"attachments", <<>>>>, <<"bogus", 1>>>>,
      <<<<"quantity", 2>>, <<"__class__", "x">>>>,
      <<<<"__class__", "x">>, <<"quantity", 2>>>>,
      <<<<"attachments", <<>>>>, <<"__dict__", DictValue>>>> }

\* the call data of the update_item service: an id and changes
CallData == {<<<<"id", i>>>> \o cs : i \in ItemIds,
             cs \in {c \in ChangeSets : "id" \notin KwKeys(c)}}

\* the caller has the result; the store waits for the next call
CallReturns ==
    /\ op # NoCall
    /\ \A t \in Tasks : pc[t] = "idle"
    /\ op' = NoCall
    /\ ret' = NoResult
    /\ UNCHANGED <<items, categories, doc, files, writes, now, uuids, pc, local>>

Next ==
    \/ CallReturns
    \/ \E data \in AddBundles : AddItem(data)
    \/ \E item_id \in CallIds, changes \in ChangeSets : UpdateItem(item_id, changes)
    \/ \E data \in CallData : HandleUpdateItem(data)
    \/ \E item_id \in CallIds : DeleteItem(item_id)
    \/ \E item_id \in CallIds, area_id \in Areas : MoveItemArea(item_id, area_id)
    \/ \E item_id \in CallIds, zone \in Zones : SetItemZone(item_id, zone)
    \/ \E item_id \in CallIds, content \in Contents,
          suggested \in FileNames \cup {NoName}, mime_type \in MimeTypes \cup {None} :
            AddItemPhotoFromBytes(item_id, content, suggested, mime_type)
    \/ \E item_id \in CallIds, resp \in Responses, suggested \in FileNames \cup {NoName} :
            AddItemPhotoFromUrl(item_id, resp, suggested)
    \/ \E item_id \in CallIds, file_info \in FileInfos :
            AddItemPhotoFromFileInfo(item_id, file_info)

Spec == Init /\ [][Next]_vars

(***************************************************************************)
(* Calls in flight at the same time (SpecConc).  A task runs one call; it  *)
(* gives up control only at an await: the fetch of a URL photo and the     *)
(* store write at the end of async_save.  async_save builds its data       *)
(* before the await, so a task waiting at "save" holds the snapshot it     *)
(* took; the write lands when the store gets to it.                        *)
(***************************************************************************)
\* the change sets of the concurrent calls: plain fields only
ConcChangeSets == {<<<<"quantity", 2>>>>, <<<<"quantity", 3>>>>, <<<<"area_id", "k">>>>}

Finish(t, l, kind, id) ==
    /\ pc' = [pc EXCEPT ![t] = "done"]
    /\ local' = [local EXCEPT ![t] = [l EXCEPT !.ret = [kind |-> kind, id |-> id]]]

\* up to the await of async_save: the snapshot is taken, the write is pending
AwaitSave(t, l, its, id) ==
    /\ pc' = [pc EXCEPT ![t] = "save"]
    /\ local' = [local EXCEPT ![t] =
                    [l EXCEPT !.data = Serialize(its, categories),
                              !.ret = [kind |-> "Item", id |-> id]]]

\* async_update_item up to its await
CallUpdateItem(t, item_id, changes) ==
    LET l == [NoLocal EXCEPT !.name = "update_item", !.id = item_id,
                             !.changes = changes]
    IN  /\ op = NoCall
        /\ pc[t] = "idle"
        /\ now < MaxClock
        /\ UNCHANGED <<categories, doc, files, writes, uuids, op, ret>>
        /\ IF ~Has(items, item_id)
           THEN Finish(t, l, "None", "") /\ UNCHANGED <<items, now>>
           ELSE LET r == ApplyChanges(Get(items, item_id), changes)
                    item == [r.item EXCEPT !.updated_at = now]
                IN  IF r.raised
                    THEN /\ items' = Put(items, item_id, r.item)
                         /\ Finish(t, l, "TypeError", "")
                         /\ UNCHANGED now
                    ELSE /\ items' = Put(items, item_id, item)
                         /\ now' = now + 1
                         /\ AwaitSave(t, l, items', item.id)

\* async_delete_item up to its await
CallDeleteItem(t, item_id) ==
    LET l == [NoLocal EXCEPT !.name = "delete_item", !.id = item_id]
    IN  /\ op = NoCall
        /\ pc[t] = "idle"
        /\ UNCHANGED <<categories, doc, files, writes, uuids, now, op, ret>>
        /\ IF ~Has(items, item_id)
           THEN Finish(t, l, "False", "") /\ UNCHANGED items
           ELSE /\ items' = Pop(items, item_id)
                /\ pc' = [pc EXCEPT ![t] = "save"]
                /\ local' = [local EXCEPT ![t] =
                                [l EXCEPT !.data = Serialize(items', categories),
                                          !.ret = [kind |-> "True", id |-> ""]]]

\* async_add_item_photo_from_url up to "async with session.get(image_url)"
CallAddItemPhotoFromUrl(t, item_id, suggested) ==
    LET l == [NoLocal EXCEPT !.name = "add_item_photo_from_url", !.id = item_id,
                             !.suggested = suggested]
    IN  /\ op = NoCall
        /\ pc[t] = "idle"
        /\ UNCHANGED <<items, categories, doc, files, writes, uuids, now, op, ret>>
        /\ IF ~Has(items, item_id)
           THEN Finish(t, l, "None", "")
           ELSE /\ pc' = [pc EXCEPT ![t] = "fetch"]
                /\ local' = [local EXCEPT ![t] =
                                [l EXCEPT !.item = <<Get(items, item_id)>>]]

\* FetchReturns appending to the item as it was read before the fetch
FetchReturnsStale(t, resp) ==
    LET l == local[t]
        suggested == l.suggested
        mime == IF resp.content_type = None THEN "image/jpeg" ELSE resp.content_type
        filename == Sanitize(IF suggested # NoName THEN suggested
                             ELSE <<l.id, "-", UuidNames[uuids + 1], Ext(suggested, mime)>>)
        attachment == Attachment(UuidNames[uuids + PhotoDraws(suggested)],
                                 filename, mime, now)
    IN  /\ pc[t] = "fetch"
        /\ UNCHANGED <<categories, doc, writes, op, ret>>
        /\ IF resp.status # 200 \/ ~Has(items, l.id)
           THEN Finish(t, l, "None", "") /\ UNCHANGED <<items, files, uuids, now>>
           ELSE LET old == l.item[1]
                    item == [old EXCEPT
                                !.attachments = Append(old.attachments, attachment),
                                !.updated_at = now]
                IN  /\ now < MaxClock
                    /\ uuids + PhotoDraws(suggested) <= MaxUuid
                    /\ files' = WriteFile(files, filename, resp.content)
                    /\ uuids' = uuids + PhotoDraws(suggested)
                    /\ items' = Put(items, l.id, item)
                    /\ now' = now + 1
                    /\ AwaitSave(t, [l EXCEPT !.att = attachment.id], items', item.id)

\* the response arrives; on 200 async_add_item_photo_from_bytes runs up to
\* its await, looking the item up again
FetchReturns(t, resp) ==
    LET l == local[t]
        suggested == l.suggested
        mime == IF resp.content_type = None THEN "image/jpeg" ELSE resp.content_type
        filename == Sanitize(IF suggested # NoName THEN suggested
                             ELSE <<l.id, "-", UuidNames[uuids + 1], Ext(suggested, mime)>>)
        attachment == Attachment(UuidNames[uuids + PhotoDraws(suggested)],
                                 filename, mime, now)
    IN  /\ pc[t] = "fetch"
        /\ UNCHANGED <<categories, doc, writes, op, ret>>
        /\ IF resp.status # 200 \/ ~Has(items, l.id)
           THEN Finish(t, l, "None", "") /\ UNCHANGED <<items, files, uuids, now>>
           ELSE LET old == Get(items, l.id)
                    item == [old EXCEPT
                                !.attachments = Append(old.attachments, attachment),
                                !.updated_at = now]
                IN  /\ now < MaxClock
                    /\ uuids + PhotoDraws(suggested) <= MaxUuid
                    /\ files' = WriteFile(files, filename, resp.content)
                    /\ uuids' = uuids + PhotoDraws(suggested)
                    /\ items' = Put(items, l.id, item)
                    /\ now' = now + 1
                    /\ AwaitSave(t, [l EXCEPT !.att = attachment.id], items', item.id)

\* "await self._store.async_save(data)" completes: the data of this call is
\* the document, and the call returns
StoreWrites(t) ==
    /\ pc[t] = "save"
    /\ doc' = local[t].data
    /\ writes' = writes + 1
    /\ pc' = [pc EXCEPT ![t] = "done"]
    /\ UNCHANGED <<items, categories, files, uuids, now, op, ret, local>>

NextConc ==
    \/ \E t \in Tasks, item_id \in ItemIds, changes \in ConcChangeSets :
            CallUpdateItem(t, item_id, changes)
    \/ \E t \in Tasks, item_id \in ItemIds : CallDeleteItem(t, item_id)
    \/ \E t \in Tasks, item_id \in ItemIds, suggested \in FileNames \cup {NoName} :
            CallAddItemPhotoFromUrl(t, item_id, suggested)
    \/ \E t \in Tasks, resp \in Responses : FetchReturns(t, resp)
    \/ \E t \in Tasks : StoreWrites(t)

SpecConc == Init /\ [][NextConc]_vars

(***************************************************************************)
(* Properties of the calls made one at a time (Spec).  A step that makes a *)
(* call leaves an idle state and sets op and ret; the unprimed variables   *)
(* are the store before the call, the primed ones the store after it.      *)
(***************************************************************************)
PhotoOps == {"add_item_photo_from_bytes", "add_item_photo_from_url",
             "add_item_photo_from_file_info"}

UpdateOps == {"update_item", "handle_update_item"}

PerItemOps == PhotoOps \cup UpdateOps
                  \cup {"delete_item", "move_item_area", "set_item_zone"}

NoTaskRunning == \A t \in Tasks : pc[t] = "idle"

\* two dicts with the same keys and the same value under each key
SameMap(d1, d2) ==
    /\ Keys(d1) = Keys(d2)
    /\ \A k \in Keys(d1) : Get(d1, k) = Get(d2, k)

\* every entry of d1 but the one under k is in d2, unchanged
OthersKept(d1, d2, k) ==
    \A j \in Keys(d1) \ {k} : Has(d2, j) /\ Get(d2, j) = Get(d1, j)

\* C1: the attachment list of an item that stays in the store changes only by
\* a successful photo add on that item, which appends one attachment at the end.
C1_AttachmentsAppendOnly ==
    [][\A k \in Keys(items) \cap Keys(items') :
          LET old == Get(items, k).attachments
              new == Get(items', k).attachments
          IN  \/ new = old
              \/ /\ op'.name \in PhotoOps
                 /\ op'.id = k
                 /\ ret'.kind = "Item"
                 /\ Len(new) = Len(old) + 1
                 /\ SubSeq(new, 1, Len(old)) = old]_vars

\* C2: add_item with a bundle of item fields that has a name returns an item
\* whose id is set and was no key of the store, adds that one item and
\* replaces none.
C2_AddItemIdUnique ==
    [][(/\ op'.name = "add_item"
        /\ "name" \in op'.keys
        /\ op'.keys \subseteq ItemFields)
       => /\ ret'.kind = "Item"
          /\ ret'.id # ""
          /\ ~Has(items, ret'.id)
          /\ Keys(items') = Keys(items) \cup {ret'.id}
          /\ OthersKept(items, items', ret'.id)]_vars

\* C3: add_item with a bundle that has no name raises the validation error
\* and leaves items, categories and the document as they were, with no write.
C3_AddItemWithoutName ==
    [][(op'.name = "add_item" /\ "name" \notin op'.keys)
       => /\ ret'.kind = "ValueError"
          /\ UNCHANGED <<items, categories, doc, writes>>]_vars

C3_Witness ==
    /\ op.name = "add_item"
    /\ "name" \notin op.keys
    /\ ret.kind = "ValueError"
    /\ items # <<>>
    /\ writes > 0

\* C4: update_item on an existing item changes, besides updated_at, only
\* fields named by keys of the change set, never attachments, and no other
\* item and no category.
C4_UpdateChangesOnlyNamedFields ==
    [][(op'.name \in UpdateOps /\ Has(items, op'.id))
       => /\ Has(items', op'.id)
          /\ \A f \in ItemFields \ {"updated_at"} :
                (f \notin op'.keys \/ f = "attachments")
                    => Get(items', op'.id)[f] = Get(items, op'.id)[f]
          /\ OthersKept(items, items', op'.id)
          /\ Keys(items') = Keys(items)
          /\ categories' = categories]_vars

\* C5: a per-item call on an unknown id returns None/False, and a per-item
\* call that returns None/False leaves items, categories, the document and
\* the photo files as they were, with no write.
C5_FailureHasNoEffect ==
    [][(op'.name \in PerItemOps)
       => /\ ~Has(items, op'.id) => ret'.kind \in {"None", "False"}
          /\ ret'.kind \in {"None", "False"}
                => UNCHANGED <<items, categories, doc, files, writes>>]_vars

C5_Witness ==
    /\ op.name = "add_item_photo_from_url"
    /\ Has(items, op.id)
    /\ ret.kind = "None"
    /\ files # {}
    /\ writes > 0

\* C6: with no call in progress the document holds the serialization of the
\* items and categories in memory.
C6_DocumentMatchesMemory ==
    NoTaskRunning => StoredData(doc) = StoredData(Serialize(items, categories))

\* C7: loading the serialization of the store into a fresh store gives the
\* same items map and the same categories map.
C7_RoundTrip ==
    /\ SameMap(LoadItems(Serialize(items, categories)), items)
    /\ SameMap(LoadCategories(Serialize(items, categories)), categories)

\* C8: delete_item of a present id returns True and leaves neither an entry
\* under that id in memory nor a record with that id in the document, and
\* removes nothing else; delete_item of an absent id returns False and
\* changes nothing.
C8_DeleteIdempotent ==
    [][(op'.name = "delete_item")
       => IF Has(items, op'.id)
          THEN /\ ret'.kind = "True"
               /\ ~Has(items', op'.id)
               /\ \A i \in DOMAIN doc'.items : doc'.items[i].id # op'.id
               /\ OthersKept(items, items', op'.id)
          ELSE /\ ret'.kind = "False"
               /\ UNCHANGED <<items, categories, doc, files, writes>>]_vars

\* C10: every entry of items and of categories holds a record whose id is
\* the entry's key.
C10_KeyedById ==
    /\ \A i \in DOMAIN items : items[i].val.id = items[i].key
    /\ \A i \in DOMAIN categories : categories[i].val.id = categories[i].key

(***************************************************************************)
(* Properties of the calls in flight at the same time (SpecConc).          *)
(***************************************************************************)
AllDone == \A t \in Tasks : pc[t] = "done"

Succeeded(t) == pc[t] = "done" /\ local[t].ret.kind = "Item"

\* the item holds what the call with locals l did to it
ChangeIn(item, l) ==
    /\ \A i \in DOMAIN l.changes : item[l.changes[i][1]] = l.changes[i][2]
    /\ l.att # "" => \E a \in Range(item.attachments) : a.id = l.att

MissingIn(d, t) ==
    \/ ~Has(d, local[t].id)
    \/ ~ChangeIn(Get(d, local[t].id), local[t])

MissingInMemory(t) == Succeeded(t) /\ MissingIn(items, t)

MissingInDocument(t) == Succeeded(t) /\ MissingIn(LoadItems(doc), t)

SameItem == local[1].id = local[2].id

LostInDocumentOnly ==
    /\ AllDone
    /\ SameItem
    /\ \A t \in Tasks : Succeeded(t) /\ ~MissingInMemory(t)
    /\ \E t \in Tasks : MissingInDocument(t)

\* one call's change is gone from memory
LostInMemory ==
    /\ AllDone
    /\ SameItem
    /\ \A t \in Tasks : Succeeded(t)
    /\ \E t \in Tasks : MissingInMemory(t)

====
